---- MODULE Spec2Model ----
(***************************************************************************)
(* Link checkers of peterju/webdata.                                       *)
(*                                                                         *)
(*   chklink.py  - check_link coroutines, one task per seed, gathered on   *)
(*                 one asyncio event loop and sharing the dictionaries     *)
(*                 visited_links and error_links      (specification       *)
(*                 SpecChk).                                               *)
(*   testurl.py  - main crawls the seeds in sequence with check_links,     *)
(*                 find_links and fetch, sharing the cache scanned_urls    *)
(*                 (specification SpecTest).                               *)
(*                                                                         *)
(* The network is a stub: a site maps (host, path) to the link references  *)
(* of the page served there, and a script per URL says how many GETs time  *)
(* out before the server gives its answer.                                 *)
(***************************************************************************)
EXTENDS Integers, Sequences, FiniteSets, TLC

VARIABLES
    site,           \* the web: (host, path) -> sequence of link references
    script,         \* URL -> [k, then]: k timeouts, then the answer `then`
    \* ---- chklink.py
    visited_links,  \* dict url -> status                       (line 10)
    error_links,    \* dict url -> entry                        (line 13)
    retries,        \* check_link's retries argument            (line 16)
    max_depth,      \* main's max_depth argument                (line 62)
    started,        \* tasks of asyncio.gather that have begun  (line 65)
    stack,          \* task -> its stack of check_link frames
    running,        \* the task the event loop is running, or NoTask
    callCount,      \* url -> number of check_link calls made for it
    fetchedAt,      \* {<<url, depth>>}: the depth of the call that issued a GET
    enumerated,     \* url -> number of times its links were enumerated
    \* ---- testurl.py
    scanned_urls,   \* dict url -> (html_text, url, error_message) (line 240)
    seed,           \* main's position in urls                    (line 204)
    frames,         \* the stack of check_links frames
    visited_urls,   \* the set shared by the calls of one crawl    (line 121)
    reports,        \* the (url, invalid_links) main has written   (line 210)
    raised,         \* the exception that left asyncio.run(main()), or None
    fetchLog,       \* the calls of fetch: seed, url, nesting level, GET or not
    expandLog,      \* the pages whose links find_links returned
    \* ---- both
    getCount        \* url -> number of session.get calls issued for it

cvars == <<visited_links, error_links, retries, max_depth, started, stack,
           running, callCount, fetchedAt, enumerated>>
tvars == <<scanned_urls, seed, frames, visited_urls, reports, raised,
           fetchLog, expandLog>>
vars == <<site, script, getCount, cvars, tvars>>

-----------------------------------------------------------------------------
(* Bounds of the model.                                                    *)

\* A script lets at most this many GETs time out before the answer.
MaxTimeouts == 1

(* Program constants.                                                      *)

\* check_link(url, session, depth=0, retries=3, max_depth=2)
DefaultRetries == 3
\* main(urls, max_depth=2)
DefaultMaxDepth == 2
\* __main__: max_depth = 3
MainMaxDepth == 3

-----------------------------------------------------------------------------
(* URLs and link references.                                               *)

\* An absolute URL, as the string scheme://host/path#frag.
URL(s, h, p, f) == [scheme |-> s, host |-> h, path |-> p, frag |-> f]
Http(h, p) == URL("http", h, p, "")

\* The raw text of an href/src attribute: the listed prefix it starts with
\* ("" when it starts with none of them), and the rest.
Ref(pre, h, p) == [prefix |-> pre, host |-> h, path |-> p]
Rel(p) == Ref("", "", p)                \* "/a"
NetPath(h, p) == Ref("//", h, p)        \* "//c/p"
AbsHttp(h, p) == Ref("http", h, p)      \* "http://x/q"
Anchor(f) == Ref("#", "", f)            \* "#top"
Js == Ref("javascript", "", "void(0)")  \* "javascript:void(0)"
Mailto == Ref("mailto", "", "a@b")      \* "mailto:a@b"
DataImage == Ref("data:image", "", "png")
Empty == Ref("", "", "")                \* ""
Bad == Ref("//[", "", "")               \* "//[" : urlsplit raises ValueError

\* urllib.parse.urljoin(base, ref) raises for this reference.
UrljoinRaises(ref) == ref.prefix = "//["

\* urllib.parse.urljoin(base, ref), for a reference it accepts.
urljoin(base, ref) ==
    CASE ref = Empty -> base
      [] ref.prefix = "" -> URL(base.scheme, base.host, ref.path, "")
      [] ref.prefix = "//" -> URL(base.scheme, ref.host, ref.path, "")
      [] ref.prefix = "http" -> URL("http", ref.host, ref.path, "")
      [] ref.prefix = "#" -> URL(base.scheme, base.host, base.path, ref.path)
      [] OTHER -> URL(ref.prefix, "", ref.path, "")

\* urlparse(url).netloc
Netloc(url) == url.host

\* The seeds: the urls list of __main__.
Seed1 == Http("w", "/")
Seed2 == Http("c", "/")
urls == <<Seed1, Seed2>>

\* Two seeds that reach the same pages, pages with several parents, a
\* self-link and a cycle.
SiteShared ==
    <<"w", "/">> :> <<Rel("/a"), NetPath("c", "/p"), Rel("/a")>> @@
    <<"w", "/a">> :> <<Rel("/a"), NetPath("c", "/p"), Rel("/")>> @@
    <<"c", "/">> :> <<Rel("/p")>> @@
    <<"c", "/p">> :> <<NetPath("w", "/a")>>

\* A chain of pages four links deep with references of the filtered kinds,
\* and a seed that links to the other seed.
SiteDeep ==
    <<"w", "/">> :> <<Rel("/a")>> @@
    <<"w", "/a">> :> <<Js, Rel("/b"), Empty>> @@
    <<"w", "/b">> :> <<Mailto, Rel("/d"), DataImage>> @@
    <<"w", "/d">> :> <<Rel("/e")>> @@
    <<"c", "/">> :> <<AbsHttp("w", "/")>>

\* A page of another origin that has a link of its own, and an anchor.
SiteCross ==
    <<"w", "/">> :> <<AbsHttp("x", "/"), Anchor("top")>> @@
    <<"x", "/">> :> <<Rel("/q")>> @@
    <<"c", "/">> :> <<>>

\* A page with a reference that cannot be resolved between two that can.
SiteBad ==
    <<"w", "/">> :> <<Rel("/a"), Bad, Rel("/b")>> @@
    <<"c", "/">> :> <<Rel("/p"), Rel("/q")>>

\* A page that is linked from the seed and, ahead of that link in document
\* order, from a sibling: a depth-first crawl meets it first one level deeper.
SiteOrder ==
    <<"w", "/">> :> <<Rel("/a"), Rel("/b")>> @@
    <<"w", "/a">> :> <<Rel("/b")>> @@
    <<"w", "/b">> :> <<Rel("/p")>> @@
    <<"w", "/p">> :> <<Rel("/q")>> @@
    <<"c", "/">> :> <<>>

Sites == {SiteShared, SiteDeep, SiteCross, SiteBad, SiteOrder}

\* The link references of the page the site serves at url.
PageLinks(url) ==
    IF <<url.host, url.path>> \in DOMAIN site
    THEN site[<<url.host, url.path>>] ELSE <<>>

-----------------------------------------------------------------------------
(* The server stub.                                                        *)

\* What a GET can end in:
\*   html      200, text/html, a page that parses
\*   badbody   200, text/html, a body lxml cannot parse
\*   slowbody  200, text/html, reading the body times out
\*   other     200, not text/html
\*   http404   a status other than 200
\*   reset     ConnectionResetError
\*   timeout   asyncio.TimeoutError
\* A script answers at once, or times out k times and then serves the page,
\* or times out for ever.
Answers == {"html", "badbody", "slowbody", "other", "http404", "reset"}
Scripts ==
    {[k |-> 0, then |-> a] : a \in Answers \cup {"timeout"}}
    \cup {[k |-> k, then |-> "html"] : k \in 1..MaxTimeouts}

\* The scripts the server may follow for url: the one it follows already, or
\* any when this is the first GET.
ScriptsFor(url) == IF url \in DOMAIN script THEN {script[url]} ELSE Scripts

\* The outcome of the n-th GET under script s.
Outcome(s, n) == IF n <= s.k THEN "timeout" ELSE s.then

\* dict[key] = value
Put(d, key, value) ==
    [x \in DOMAIN d \cup {key} |-> IF x = key THEN value ELSE d[x]]

\* dict.get(key, 0) + 1
Incr(d, key) == Put(d, key, IF key \in DOMAIN d THEN d[key] + 1 ELSE 1)
Count(d, key) == IF key \in DOMAIN d THEN d[key] ELSE 0

Empty_dict == [x \in {} |-> 0]

-----------------------------------------------------------------------------
(* chklink.py                                                              *)

NoTask == 0
Tasks == 1..Len(urls)

\* A frame of check_link: its arguments, where it stands, and the links of
\* the parsed page with the index of the next one.
Frame(url, depth, r) ==
    [url |-> url, depth |-> depth, retries |-> r, pc |-> "enter",
     links |-> <<>>, i |-> 1]

Top(t) == stack[t][Len(stack[t])]
SetTop(t, f) == [stack EXCEPT ![t] = [@ EXCEPT ![Len(@)] = f]]
Call(t, f, callee) == [stack EXCEPT ![t] = Append([@ EXCEPT ![Len(@)] = f], callee)]
Return(t) == [stack EXCEPT ![t] = SubSeq(@, 1, Len(@) - 1)]
\* After a return the task runs on in its caller, or is finished.
AfterReturn(t) == IF Len(stack[t]) = 1 THEN NoTask ELSE t

At(t, pc) == running = t /\ stack[t] # <<>> /\ Top(t).pc = pc
\* A task suspended in an await whose I/O completes; the loop is idle.
Awaiting(t, pc) ==
    /\ running = NoTask
    /\ started = Tasks
    /\ stack[t] # <<>>
    /\ Top(t).pc = pc

\* error_links[url] = {...}
ErrorEntry(depth, url, reason) ==
    [depth |-> depth, parent |-> url, target |-> url, reason |-> reason]

\* str(e) of the exception a GET or a body raises
Message(outcome) ==
    CASE outcome = "reset" -> "Connection reset by peer"
      [] outcome = "badbody" -> "Document is empty"
      [] OTHER -> "Invalid IPv6 URL"

\* line 17: url in visited_links
InVisitedFinished(url) ==
    url \in DOMAIN visited_links /\ visited_links[url] # "Processing"
InVisited(url) == url \in DOMAIN visited_links

\* line 35: the reference is followed
SkipPrefixes == {"http", "#", "javascript", "mailto", "data:image"}
Followed(ref) == ref # Empty /\ ref.prefix \notin SkipPrefixes

\* line 58: the depth limit is reached
DepthLimit(depth) == depth >= max_depth

\* main, lines 64-65: the tasks of gather start in the order of urls, each
\* running until its first await, before any I/O completes.
StartTask(t) ==
    /\ running = NoTask
    /\ t \in Tasks \ started
    /\ \A s \in Tasks : s < t => s \in started
    /\ started' = started \cup {t}
    /\ stack' = [stack EXCEPT ![t] = <<Frame(urls[t], 0, retries)>>]
    /\ running' = t
    /\ UNCHANGED tvars
    /\ UNCHANGED <<site, script, visited_links, error_links, retries,
                   max_depth, getCount, callCount, fetchedAt, enumerated>>

\* lines 17-18: the URL is in visited_links, return.
EnterVisited(t) ==
    /\ At(t, "enter")
    /\ InVisited(Top(t).url)
    /\ callCount' = Incr(callCount, Top(t).url)
    /\ stack' = Return(t)
    /\ running' = AfterReturn(t)
    /\ UNCHANGED tvars
    /\ UNCHANGED <<site, script, visited_links, error_links, retries,
                   max_depth, started, getCount, fetchedAt, enumerated>>

\* lines 17-23: mark the URL, issue the GET and wait for it.
EnterGet(t) ==
    /\ At(t, "enter")
    /\ ~InVisited(Top(t).url)
    /\ callCount' = Incr(callCount, Top(t).url)
    /\ visited_links' = Put(visited_links, Top(t).url, "Processing")
    /\ getCount' = Incr(getCount, Top(t).url)
    /\ fetchedAt' = fetchedAt \cup {<<Top(t).url, Top(t).depth>>}
    /\ stack' = SetTop(t, [Top(t) EXCEPT !.pc = "get"])
    /\ running' = NoTask
    /\ UNCHANGED tvars
    /\ UNCHANGED <<site, script, error_links, retries, max_depth, started,
                   enumerated>>

\* The GET of the top frame of t ends in outcome o.
Responds(t, o) ==
    /\ Awaiting(t, "get")
    /\ \E s \in ScriptsFor(Top(t).url) :
          /\ Outcome(s, getCount[Top(t).url]) \in o
          /\ script' = Put(script, Top(t).url, s)

\* lines 23-30: status 200 and text/html, wait for the body.
RespondHtml(t) ==
    /\ Responds(t, {"html", "badbody", "slowbody"})
    /\ visited_links' = Put(visited_links, Top(t).url, "200")
    /\ stack' = SetTop(t, [Top(t) EXCEPT !.pc = "text"])
    /\ UNCHANGED tvars
    /\ UNCHANGED <<site, error_links, retries, max_depth, started, running,
                   getCount, callCount, fetchedAt, enumerated>>

\* lines 24-29: another status, or 200 and not text/html.
RespondStatus(t) ==
    /\ \/ /\ Responds(t, {"other"})
          /\ visited_links' = Put(visited_links, Top(t).url, "200")
       \/ /\ Responds(t, {"http404"})
          /\ visited_links' = Put(visited_links, Top(t).url, "404")
    /\ stack' = SetTop(t, [Top(t) EXCEPT !.pc = "finally"])
    /\ running' = t
    /\ UNCHANGED tvars
    /\ UNCHANGED <<site, error_links, retries, max_depth, started,
                   getCount, callCount, fetchedAt, enumerated>>

\* line 38: the GET raises asyncio.TimeoutError.
RespondTimeout(t) ==
    /\ Responds(t, {"timeout"})
    /\ stack' = SetTop(t, [Top(t) EXCEPT !.pc = "timeout"])
    /\ running' = t
    /\ UNCHANGED tvars
    /\ UNCHANGED <<site, visited_links, error_links, retries, max_depth,
                   started, getCount, callCount, fetchedAt, enumerated>>

\* lines 49-52: the GET raises ConnectionResetError.
RespondError(t) ==
    /\ Responds(t, {"reset"})
    /\ error_links' = Put(error_links, Top(t).url,
                          ErrorEntry(Top(t).depth, Top(t).url, Message("reset")))
    /\ visited_links' = Put(visited_links, Top(t).url, Message("reset"))
    /\ stack' = SetTop(t, [Top(t) EXCEPT !.pc = "finally"])
    /\ running' = t
    /\ UNCHANGED tvars
    /\ UNCHANGED <<site, retries, max_depth, started, getCount, callCount,
                   fetchedAt, enumerated>>

\* lines 30-33: the body is read and parsed.
TextParsed(t) ==
    /\ Awaiting(t, "text")
    /\ script[Top(t).url].then = "html"
    /\ stack' = SetTop(t, [Top(t) EXCEPT !.pc = "loop",
                                         !.links = PageLinks(Top(t).url)])
    /\ enumerated' = Incr(enumerated, Top(t).url)
    /\ running' = t
    /\ UNCHANGED tvars
    /\ UNCHANGED <<site, script, visited_links, error_links, retries,
                   max_depth, started, getCount, callCount, fetchedAt>>

\* lines 30-31, 53-56: html.fromstring raises on the body.
TextUnparsable(t) ==
    /\ Awaiting(t, "text")
    /\ script[Top(t).url].then = "badbody"
    /\ error_links' = Put(error_links, Top(t).url,
                          ErrorEntry(Top(t).depth, Top(t).url, Message("badbody")))
    /\ visited_links' = Put(visited_links, Top(t).url, Message("badbody"))
    /\ stack' = SetTop(t, [Top(t) EXCEPT !.pc = "finally"])
    /\ running' = t
    /\ UNCHANGED tvars
    /\ UNCHANGED <<site, script, retries, max_depth, started, getCount,
                   callCount, fetchedAt, enumerated>>

\* lines 30, 38: reading the body runs into the request's timeout.
TextTimeout(t) ==
    /\ Awaiting(t, "text")
    /\ script[Top(t).url].then = "slowbody"
    /\ stack' = SetTop(t, [Top(t) EXCEPT !.pc = "timeout"])
    /\ running' = t
    /\ UNCHANGED tvars
    /\ UNCHANGED <<site, script, visited_links, error_links, retries,
                   max_depth, started, getCount, callCount, fetchedAt,
                   enumerated>>

\* line 33: the links of the page are exhausted.
LoopEnd(t) ==
    /\ At(t, "loop")
    /\ Top(t).i > Len(Top(t).links)
    /\ stack' = SetTop(t, [Top(t) EXCEPT !.pc = "finally"])
    /\ UNCHANGED tvars
    /\ UNCHANGED <<site, script, visited_links, error_links, retries,
                   max_depth, started, running, getCount, callCount,
                   fetchedAt, enumerated>>

\* lines 33-35: the reference is empty or starts with a skipped prefix.
LoopSkip(t) ==
    /\ At(t, "loop")
    /\ Top(t).i <= Len(Top(t).links)
    /\ ~Followed(Top(t).links[Top(t).i])
    /\ stack' = SetTop(t, [Top(t) EXCEPT !.i = @ + 1])
    /\ UNCHANGED tvars
    /\ UNCHANGED <<site, script, visited_links, error_links, retries,
                   max_depth, started, running, getCount, callCount,
                   fetchedAt, enumerated>>

\* lines 36-37: resolve the reference and call check_link for it.
LoopCall(t) ==
    /\ At(t, "loop")
    /\ Top(t).i <= Len(Top(t).links)
    /\ Followed(Top(t).links[Top(t).i])
    /\ ~UrljoinRaises(Top(t).links[Top(t).i])
    /\ stack' = Call(t, [Top(t) EXCEPT !.i = @ + 1],
                     Frame(urljoin(Top(t).url, Top(t).links[Top(t).i]),
                           Top(t).depth + 1, Top(t).retries))
    /\ UNCHANGED tvars
    /\ UNCHANGED <<site, script, visited_links, error_links, retries,
                   max_depth, started, running, getCount, callCount,
                   fetchedAt, enumerated>>

\* lines 36, 53-56: urljoin raises, the exception ends the loop.
LoopRaise(t) ==
    /\ At(t, "loop")
    /\ Top(t).i <= Len(Top(t).links)
    /\ Followed(Top(t).links[Top(t).i])
    /\ UrljoinRaises(Top(t).links[Top(t).i])
    /\ error_links' = Put(error_links, Top(t).url,
                          ErrorEntry(Top(t).depth, Top(t).url, Message("urljoin")))
    /\ visited_links' = Put(visited_links, Top(t).url, Message("urljoin"))
    /\ stack' = SetTop(t, [Top(t) EXCEPT !.pc = "finally"])
    /\ UNCHANGED tvars
    /\ UNCHANGED <<site, script, retries, max_depth, started, running,
                   getCount, callCount, fetchedAt, enumerated>>

\* lines 39-40: retries are left, call check_link for the same URL.
TimeoutRetry(t) ==
    /\ At(t, "timeout")
    /\ Top(t).retries > 0
    /\ stack' = Call(t, [Top(t) EXCEPT !.pc = "finally"],
                     Frame(Top(t).url, Top(t).depth, Top(t).retries - 1))
    /\ UNCHANGED tvars
    /\ UNCHANGED <<site, script, visited_links, error_links, retries,
                   max_depth, started, running, getCount, callCount,
                   fetchedAt, enumerated>>

\* lines 41-48: no retries are left.
TimeoutGiveUp(t) ==
    /\ At(t, "timeout")
    /\ Top(t).retries <= 0
    /\ error_links' = Put(error_links, Top(t).url,
                          ErrorEntry(Top(t).depth, Top(t).url, "Timeout Error"))
    /\ visited_links' = Put(visited_links, Top(t).url, "Timeout Error")
    /\ stack' = SetTop(t, [Top(t) EXCEPT !.pc = "finally"])
    /\ UNCHANGED tvars
    /\ UNCHANGED <<site, script, retries, max_depth, started, running,
                   getCount, callCount, fetchedAt, enumerated>>

\* lines 57-59: the finally clause, and the return.
Finally(t) ==
    /\ At(t, "finally")
    /\ visited_links' =
          IF DepthLimit(Top(t).depth)
          THEN Put(visited_links, Top(t).url, "Depth Limit Reached")
          ELSE visited_links
    /\ stack' = Return(t)
    /\ running' = AfterReturn(t)
    /\ UNCHANGED tvars
    /\ UNCHANGED <<site, script, error_links, retries, max_depth, started,
                   getCount, callCount, fetchedAt, enumerated>>

-----------------------------------------------------------------------------
(* testurl.py                                                              *)

\* line 11
MAX_DEPTH == 3

None == "None"
\* if error_message:
Truthy(x) == x \notin {None, ""}

\* The text of a body: the page with its link references, an empty
\* document, or no text (None).
Text(links) == [kind |-> "page", links |-> links]
EmptyText == [kind |-> "empty", links |-> <<>>]
NoText == [kind |-> "none", links |-> <<>>]

\* The tuple (html_text, url, error_message) fetch returns.
Result(html_text, url, error_message) ==
    [html_text |-> html_text, url |-> url, error_message |-> error_message]

\* fetch(session, url), lines 25-58, the server following script s for url:
\* the result, whether a GET was issued, whether the result was saved in
\* scanned_urls, whether an exception left fetch instead.
fetch(url, s) ==
    IF url \in DOMAIN scanned_urls
    THEN [raises |-> FALSE, get |-> FALSE, store |-> FALSE,
          result |-> scanned_urls[url]]
    ELSE LET o == Outcome(s, Count(getCount, url) + 1) IN
        CASE o = "html" ->
                [raises |-> FALSE, get |-> TRUE, store |-> TRUE,
                 result |-> Result(Text(PageLinks(url)), url, None)]
          [] o = "badbody" ->
                [raises |-> FALSE, get |-> TRUE, store |-> TRUE,
                 result |-> Result(EmptyText, url, None)]
          [] o = "other" ->
                [raises |-> FALSE, get |-> TRUE, store |-> TRUE,
                 result |-> Result(NoText, url, "undecodable")]
          [] o = "http404" ->
                [raises |-> FALSE, get |-> TRUE, store |-> TRUE,
                 result |-> Result(NoText, url, "HTTP 404")]
          [] o = "reset" ->
                [raises |-> FALSE, get |-> TRUE, store |-> TRUE,
                 result |-> Result(NoText, url, Message("reset"))]
          [] OTHER ->
                [raises |-> TRUE, get |-> TRUE, store |-> FALSE,
                 result |-> Result(NoText, url, "")]

\* line 96: link_url.startswith(prefix)
UrlStartsWith(url, prefix) ==
    IF url.scheme = "" /\ url.host = "" /\ url.path = ""
    THEN prefix = "#" /\ url.frag # ""
    ELSE url.scheme = prefix
FindSkipPrefixes == {"#", "javascript", "mailto", "data:image"}
WithSublinks(link_url) ==
    ~ \E prefix \in FindSkipPrefixes : UrlStartsWith(link_url, prefix)

\* lines 93-95: the joined links of the page, in document order.
Joined(base_url, refs) == [i \in 1..Len(refs) |-> urljoin(base_url, refs[i])]

\* find_links(session, url, base_url, depth), lines 74-104: none says that
\* links_with_sublinks is None, links is links_with_sublinks otherwise,
\* third the third component; fetched says whether fetch was called, f is
\* what it did.
find_links(url, base_url, depth, s) ==
    LET f == fetch(url, s) IN
    IF depth >= MAX_DEPTH
    THEN [none |-> FALSE, links |-> <<>>, third |-> None, fetched |-> FALSE, f |-> f]
    ELSE IF f.raises
    THEN [none |-> TRUE, links |-> <<>>, third |-> "", fetched |-> TRUE, f |-> f]
    ELSE IF Netloc(url) # Netloc(base_url)
    THEN [none |-> FALSE, links |-> <<>>, third |-> f.result.error_message,
          fetched |-> TRUE, f |-> f]
    ELSE IF Truthy(f.result.error_message)
    THEN [none |-> TRUE, links |-> <<>>, third |-> f.result.error_message,
          fetched |-> TRUE, f |-> f]
    ELSE IF f.result.html_text.kind # "page"
    THEN [none |-> TRUE, links |-> <<>>, third |-> Message("badbody"),
          fetched |-> TRUE, f |-> f]
    ELSE IF \E i \in 1..Len(f.result.html_text.links) :
                UrljoinRaises(f.result.html_text.links[i])
    THEN [none |-> TRUE, links |-> <<>>, third |-> Message("urljoin"),
          fetched |-> TRUE, f |-> f]
    ELSE [none |-> FALSE,
          links |-> SelectSeq(Joined(base_url, f.result.html_text.links), WithSublinks),
          third |-> base_url, fetched |-> TRUE, f |-> f]

\* A frame of check_links.
CFrame(url, depth) ==
    [url |-> url, depth |-> depth, pc |-> "enter", links |-> <<>>,
     parent_url |-> None, i |-> 1, invalid_links |-> <<>>]

TTop == frames[Len(frames)]
TAt(pc) == frames # <<>> /\ TTop.pc = pc
TSetTop(f) == [frames EXCEPT ![Len(frames)] = f]
\* The nesting level of the running call of check_links: 0 for main's call.
Level == Len(frames) - 1

\* What a call of fetch for url at nesting level does to the cache and to
\* the counters.
Fetched(url, s, f, level) ==
    /\ scanned_urls' = IF f.store THEN Put(scanned_urls, url, f.result)
                                  ELSE scanned_urls
    /\ getCount' = IF f.get THEN Incr(getCount, url) ELSE getCount
    /\ script' = IF f.get THEN Put(script, url, s) ELSE script
    /\ fetchLog' = fetchLog \cup
          {[seed |-> urls[seed], url |-> url, level |-> level, get |-> f.get]}

\* check_links returns list: to the calling check_links, line 147, or to
\* main, lines 206-210, which writes the report and goes on to the next seed.
Returns(list) ==
    IF Len(frames) = 1
    THEN /\ frames' = <<>>
         /\ reports' = Append(reports, [url |-> urls[seed], invalid_links |-> list])
         /\ seed' = seed + 1
    ELSE /\ frames' = [SubSeq(frames, 1, Len(frames) - 1)
                         EXCEPT ![Len(frames) - 1].invalid_links = @ \o list]
         /\ UNCHANGED <<reports, seed>>

\* line 124: the depth limit of check_links
DepthExceeded(depth) == depth >= MAX_DEPTH

\* line 147: the depth of the recursive call
NextDepthSame(depth) == depth
NextDepth(depth) == depth + 1

\* line 143: the tuple appended for an invalid link
InvalidLinkOwnDepth(depth, parent_url, link, error_message) ==
    <<depth, parent_url, link, error_message>>
InvalidLink(depth, parent_url, link, error_message) ==
    <<depth + 1, parent_url, link, error_message>>

\* line 142: the link is reported
Reported(error_message) == Truthy(error_message)

\* main, lines 204-206: the next seed is crawled, visited_urls a new set.
MainCall ==
    /\ frames = <<>>
    /\ raised = None
    /\ seed <= Len(urls)
    /\ frames' = <<CFrame(urls[seed], 0)>>
    /\ visited_urls' = {}
    /\ UNCHANGED cvars
    /\ UNCHANGED <<site, script, getCount, scanned_urls, seed, reports,
                   raised, fetchLog, expandLog>>

\* lines 124-129: too deep or visited already, return [].
CheckLinksSkip ==
    /\ TAt("enter")
    /\ DepthExceeded(TTop.depth) \/ TTop.url \in visited_urls
    /\ Returns(<<>>)
    /\ UNCHANGED cvars
    /\ UNCHANGED <<site, script, getCount, scanned_urls, visited_urls,
                   raised, fetchLog, expandLog>>

\* line 131
CheckLinksVisit ==
    /\ TAt("enter")
    /\ ~(DepthExceeded(TTop.depth) \/ TTop.url \in visited_urls)
    /\ visited_urls' = visited_urls \cup {TTop.url}
    /\ frames' = TSetTop([TTop EXCEPT !.pc = "find"])
    /\ UNCHANGED cvars
    /\ UNCHANGED <<site, script, getCount, scanned_urls, seed, reports,
                   raised, fetchLog, expandLog>>

\* lines 135-137: find_links gives no links, return invalid_links.
FindLinksNone ==
    /\ TAt("find")
    /\ \E s \in ScriptsFor(TTop.url) :
          LET r == find_links(TTop.url, TTop.url, TTop.depth, s) IN
          /\ r.none
          /\ IF r.fetched THEN Fetched(TTop.url, s, r.f, Level)
             ELSE UNCHANGED <<scanned_urls, getCount, script, fetchLog>>
    /\ Returns(TTop.invalid_links)
    /\ UNCHANGED cvars
    /\ UNCHANGED <<site, visited_urls, raised, expandLog>>

\* lines 135-139: find_links gives the links of the page.
FindLinksSome ==
    /\ TAt("find")
    /\ \E s \in ScriptsFor(TTop.url) :
          LET r == find_links(TTop.url, TTop.url, TTop.depth, s) IN
          /\ ~r.none
          /\ IF r.fetched THEN Fetched(TTop.url, s, r.f, Level)
             ELSE UNCHANGED <<scanned_urls, getCount, script, fetchLog>>
          /\ frames' = TSetTop([TTop EXCEPT !.pc = "check", !.links = r.links,
                                           !.parent_url = r.third])
          /\ expandLog' = expandLog \cup
                {[seed |-> urls[seed], url |-> TTop.url, depth |-> TTop.depth,
                  level |-> Level, links |-> r.links]}
    /\ UNCHANGED cvars
    /\ UNCHANGED <<site, seed, visited_urls, reports, raised>>

\* lines 140-143: fetch the link, append it when it has an error message.
FetchLink ==
    /\ TAt("check")
    /\ TTop.i <= Len(TTop.links)
    /\ \E s \in ScriptsFor(TTop.links[TTop.i]) :
          LET link == TTop.links[TTop.i]
              f == fetch(link, s)
          IN  /\ ~f.raises
              /\ Fetched(link, s, f, Level + 1)
              /\ frames' = TSetTop(
                    [TTop EXCEPT
                       !.i = @ + 1,
                       !.invalid_links =
                          IF Reported(f.result.error_message)
                          THEN Append(@, InvalidLink(TTop.depth, TTop.parent_url,
                                                     link, f.result.error_message))
                          ELSE @])
    /\ UNCHANGED cvars
    /\ UNCHANGED <<site, seed, visited_urls, reports, raised, expandLog>>

\* line 141: fetch raises an exception that is no ClientError; nothing up to
\* asyncio.run(main()) catches it.
FetchLinkRaises ==
    /\ TAt("check")
    /\ TTop.i <= Len(TTop.links)
    /\ \E s \in ScriptsFor(TTop.links[TTop.i]) :
          LET link == TTop.links[TTop.i]
              f == fetch(link, s)
          IN  /\ f.raises
              /\ Fetched(link, s, f, Level + 1)
    /\ frames' = <<>>
    /\ raised' = "TimeoutError"
    /\ UNCHANGED cvars
    /\ UNCHANGED <<site, seed, visited_urls, reports, expandLog>>

\* lines 140, 146: the first loop is over.
CheckLoopEnd ==
    /\ TAt("check")
    /\ TTop.i > Len(TTop.links)
    /\ frames' = TSetTop([TTop EXCEPT !.pc = "recurse", !.i = 1])
    /\ UNCHANGED cvars
    /\ UNCHANGED <<site, script, getCount, scanned_urls, seed, visited_urls,
                   reports, raised, fetchLog, expandLog>>

\* lines 146-147: call check_links for the link.
Recurse ==
    /\ TAt("recurse")
    /\ TTop.i <= Len(TTop.links)
    /\ frames' = Append(TSetTop([TTop EXCEPT !.i = @ + 1]),
                        CFrame(TTop.links[TTop.i], NextDepth(TTop.depth)))
    /\ UNCHANGED cvars
    /\ UNCHANGED <<site, script, getCount, scanned_urls, seed, visited_urls,
                   reports, raised, fetchLog, expandLog>>

\* line 149
CheckLinksReturn ==
    /\ TAt("recurse")
    /\ TTop.i > Len(TTop.links)
    /\ Returns(TTop.invalid_links)
    /\ UNCHANGED cvars
    /\ UNCHANGED <<site, script, getCount, scanned_urls, visited_urls,
                   raised, fetchLog, expandLog>>

\* The loop of main is over, or an exception has ended it.
TestDone == frames = <<>> /\ (seed > Len(urls) \/ raised # None)

-----------------------------------------------------------------------------
(* Specifications.                                                         *)

\* testurl.py is not running.
TestIdle ==
    /\ scanned_urls = Empty_dict
    /\ seed = 1
    /\ frames = <<>>
    /\ visited_urls = {}
    /\ reports = <<>>
    /\ raised = None
    /\ fetchLog = {}
    /\ expandLog = {}

\* chklink.py is not running.
ChkIdle ==
    /\ visited_links = Empty_dict
    /\ error_links = Empty_dict
    /\ retries = DefaultRetries
    /\ max_depth = MainMaxDepth
    /\ started = {}
    /\ stack = [t \in Tasks |-> <<>>]
    /\ running = NoTask
    /\ callCount = Empty_dict
    /\ fetchedAt = {}
    /\ enumerated = Empty_dict

InitChk ==
    /\ site \in Sites
    /\ script = Empty_dict
    /\ visited_links = Empty_dict
    /\ error_links = Empty_dict
    /\ retries \in {0, DefaultRetries}
    /\ max_depth \in {DefaultMaxDepth, MainMaxDepth}
    /\ started = {}
    /\ stack = [t \in Tasks |-> <<>>]
    /\ running = NoTask
    /\ getCount = Empty_dict
    /\ callCount = Empty_dict
    /\ fetchedAt = {}
    /\ enumerated = Empty_dict
    /\ TestIdle

NextChk ==
    \E t \in Tasks :
        \/ StartTask(t)
        \/ EnterVisited(t)
        \/ EnterGet(t)
        \/ RespondHtml(t)
        \/ RespondStatus(t)
        \/ RespondTimeout(t)
        \/ RespondError(t)
        \/ TextParsed(t)
        \/ TextUnparsable(t)
        \/ TextTimeout(t)
        \/ LoopEnd(t)
        \/ LoopSkip(t)
        \/ LoopCall(t)
        \/ LoopRaise(t)
        \/ TimeoutRetry(t)
        \/ TimeoutGiveUp(t)
        \/ Finally(t)

SpecChk == InitChk /\ [][NextChk]_vars

\* The event loop runs a ready task and every GET and body read ends (in
\* an answer or in the timeout of line 23): no step that can be taken is put
\* off for ever.
SpecChkFair == SpecChk /\ WF_vars(NextChk)

\* asyncio.run(main(...)) has returned: every task of gather is finished.
ChkDone == started = Tasks /\ \A t \in Tasks : stack[t] = <<>>

\* testurl.py, lines 239-241: scanned_urls.yaml is absent or holds the empty
\* dictionary main dumps (line 213 keeps the results whose url is 200: none).
InitTest ==
    /\ site \in Sites
    /\ script = Empty_dict
    /\ getCount = Empty_dict
    /\ TestIdle
    /\ ChkIdle

NextTest ==
    \/ MainCall
    \/ CheckLinksSkip
    \/ CheckLinksVisit
    \/ FindLinksNone
    \/ FindLinksSome
    \/ FetchLink
    \/ FetchLinkRaises
    \/ CheckLoopEnd
    \/ Recurse
    \/ CheckLinksReturn

SpecTest == InitTest /\ [][NextTest]_vars

-----------------------------------------------------------------------------
(* Properties of chklink.py, under SpecChk.                                *)

\* The pages whose links all resolve, so that no exception of a link
\* overwrites what the page's own GET recorded.
LinksResolve(url) ==
    \A i \in 1..Len(PageLinks(url)) : ~UrljoinRaises(PageLinks(url)[i])

\* Every GET for url was issued by a call below the depth limit.
BelowLimit(url) == \A e \in fetchedAt : e[1] = url => e[2] < max_depth

\* C1: session.get is issued at most once per URL during a run, for every
\* interleaving of the gathered tasks, also for a URL that several pages or
\* several seeds link to.
C1_GetAtMostOnce == \A u \in DOMAIN getCount : getCount[u] <= 1

\* C1, its case: the GET of a URL is in flight, unanswered, and a second
\* call of check_link for the same URL has returned without a GET.
C1_Witness ==
    \E u \in DOMAIN visited_links :
        /\ visited_links[u] = "Processing"
        /\ u \notin DOMAIN script
        /\ callCount[u] >= 2
        /\ getCount[u] = 1

\* C2: when the first k GETs of a URL time out, k < retries, and the next
\* one would succeed, the run issues exactly k+1 GETs for the URL, its final
\* status is the status code of the success and error_links has no entry
\* for it.
C2_RetrySucceeds ==
    ChkDone =>
        \A u \in DOMAIN script :
            (/\ script[u].k < retries
             /\ script[u].then \in {"html", "other"}
             /\ LinksResolve(u)
             /\ BelowLimit(u))
            => /\ getCount[u] = script[u].k + 1
               /\ visited_links[u] = "200"
               /\ u \notin DOMAIN error_links

\* C3: when every GET of a URL times out, at most retries+1 GETs are issued
\* for it, and at the end of the run its status is 'Timeout Error',
\* error_links holds an entry for it with that reason, and no URL has the
\* status 'Processing'.
C3_TimeoutRecorded ==
    ChkDone =>
        /\ \A u \in DOMAIN script :
              (script[u].then = "timeout" /\ BelowLimit(u))
              => /\ getCount[u] <= retries + 1
                 /\ visited_links[u] = "Timeout Error"
                 /\ u \in DOMAIN error_links
                 /\ error_links[u].reason = "Timeout Error"
        /\ \A u \in DOMAIN visited_links : visited_links[u] # "Processing"

\* C4: no GET is issued by a call of check_link at a depth >= max_depth.
C4_NoGetAtDepthLimit == \A e \in fetchedAt : e[2] < max_depth

\* The first GET of url had an outcome that is no success: a status other
\* than 200, a timeout or an exception.
ChkFailed(url) ==
    url \in DOMAIN script
    /\ Outcome(script[url], 1) \in {"http404", "timeout", "reset"}

\* C7: at the end of a run every visited URL whose fetch was no success has
\* an entry in error_links, so that len(error_links) is the number of such
\* URLs.
C7_FailuresInErrorLinks ==
    ChkDone =>
        /\ \A u \in DOMAIN visited_links : ChkFailed(u) => u \in DOMAIN error_links
        /\ Cardinality(DOMAIN error_links)
             = Cardinality({u \in DOMAIN visited_links : ChkFailed(u)})

-----------------------------------------------------------------------------
(* Properties of testurl.py, under SpecTest.                               *)

\* C5: during check_links(seed) a page whose netloc differs from the seed's
\* is never expanded: find_links never returns its links.
C5_CrossOriginNotExpanded ==
    \A e \in expandLog : Netloc(e.url) = Netloc(e.seed)

\* The error message the server's answer for url amounts to, None for a
\* success.
StubError(url) ==
    CASE script[url].then = "http404" -> "HTTP 404"
      [] script[url].then = "other" -> "undecodable"
      [] script[url].then = "reset" -> Message("reset")
      [] OTHER -> None

\* The tuples the report of a seed is to hold: one for each link with an
\* error that a page expanded in the crawl of the seed links to.
ExpectedTuples(seedUrl) ==
    UNION {{<<e.depth + 1, e.url, e.links[i], StubError(e.links[i])>> :
                i \in {j \in 1..Len(e.links) : StubError(e.links[j]) # None}} :
           e \in {x \in expandLog : x.seed = seedUrl}}

TuplesOf(list) == {list[i] : i \in 1..Len(list)}

\* C6: the list check_links(seed) returns holds the tuple (d+1, P, L, reason)
\* exactly when P was expanded at a depth d < MAX_DEPTH and the fetch of its
\* link L was no success; it holds no tuple for a link whose fetch succeeded.
C6_ReportIsTheFailedLinks ==
    /\ \A e \in expandLog : e.depth < MAX_DEPTH
    /\ \A n \in 1..Len(reports) :
          TuplesOf(reports[n].invalid_links) = ExpectedTuples(reports[n].url)

\* C6, its case: a seed links to a page that answers 200 and to one that
\* answers 404, and its report is the one tuple (1, seed, the 404 link,
\* HTTP 404).
C6_Witness ==
    \E n \in 1..Len(reports) :
        /\ site = SiteBad
        /\ reports[n].url = Seed2
        /\ {Http("c", "/p"), Http("c", "/q")} \subseteq DOMAIN script
        /\ script[Http("c", "/p")].then = "html"
        /\ script[Http("c", "/q")].then = "http404"
        /\ reports[n].invalid_links =
              << <<1, Seed2, Http("c", "/q"), "HTTP 404">> >>

\* C8: no failure of a fetch leaves check_links as an exception, and main
\* writes a report for every seed.
C8_NoExceptionEscapes ==
    /\ raised = None
    /\ TestDone => Len(reports) = Len(urls)

\* C9: over one run of main, starting from an empty scanned_urls, fetch
\* issues at most one GET per URL, whatever the outcome of that GET.
C9_GetAtMostOnce == \A u \in DOMAIN getCount : getCount[u] <= 1

\* C10: a URL is fetched only when it is reached at a depth strictly below
\* MAX_DEPTH.
C10_FetchBelowMaxDepth == \A e \in fetchLog : e.level < MAX_DEPTH

\* C10, amended: a URL is fetched only when it is reached at a depth of at
\* most MAX_DEPTH, and a page is expanded only at a depth strictly below
\* MAX_DEPTH: the links of a page expanded at depth MAX_DEPTH-1 are fetched
\* and are not expanded.
C10_FetchUpToMaxDepth ==
    /\ \A e \in fetchLog : e.level <= MAX_DEPTH
    /\ \A e \in expandLog : e.level < MAX_DEPTH

\* C10, its case: a link found on a page expanded at depth MAX_DEPTH-1 has
\* been fetched.
C10_Witness ==
    \E e \in fetchLog, x \in expandLog :
        /\ e.level = MAX_DEPTH
        /\ x.level = MAX_DEPTH - 1
        /\ \E i \in 1..Len(x.links) : x.links[i] = e.url

\* C11: every tuple (depth, parent, link, reason) of a list check_links
\* returns to main has 1 <= depth <= MAX_DEPTH.
C11_TupleDepthInRange ==
    \A n \in 1..Len(reports) :
        \A tuple \in TuplesOf(reports[n].invalid_links) :
            1 <= tuple[1] /\ tuple[1] <= MAX_DEPTH

\* C11, its case: a returned list holds a tuple of depth MAX_DEPTH and one
\* of depth 1.
C11_Witness ==
    \E n \in 1..Len(reports) :
        /\ \E tuple \in TuplesOf(reports[n].invalid_links) : tuple[1] = MAX_DEPTH
        /\ \E tuple \in TuplesOf(reports[n].invalid_links) : tuple[1] = 1

\* C12: on every site, also one with self-links and cycles, the run of main
\* ends under fair scheduling; a URL met again is not fetched again, and the
\* links of a URL are enumerated at most once.
C12_TerminatesWithoutRevisit ==
    /\ <>ChkDone
    /\ [](\A u \in DOMAIN callCount :
              Count(getCount, u) <= 1 /\ Count(enumerated, u) <= 1)

\* C12, its case: the run has ended on the site with a self-link and a
\* cycle through both seeds' pages, the pages of the cycle were enumerated
\* and met again.
C12_Witness ==
    /\ ChkDone
    /\ site = SiteShared
    /\ {Http("w", "/a"), Http("c", "/p")} \subseteq DOMAIN enumerated
    /\ callCount[Http("w", "/a")] >= 3
    /\ callCount[Http("c", "/p")] >= 2
    /\ callCount[Seed1] >= 2


-----------------------------------------------------------------------------
(* Further properties of chklink.py, under SpecChk.                        *)

\* A reference the claims call crawlable: not empty, not anchor-only, no
\* javascript:, mailto: or data:image reference.
Crawlable(ref) ==
    ref # Empty /\ ref.prefix \notin {"#", "javascript", "mailto", "data:image"}

\* C13: at the end of a run, every crawlable reference of a page that was
\* fetched with status 200 and parsed, absolute http(s) references and
\* references to other origins included, has its target among the keys of
\* visited_links.
C13_CrawlableLinksVisited ==
    ChkDone =>
        \A u \in DOMAIN enumerated :
            LinksResolve(u) =>
                \A i \in 1..Len(PageLinks(u)) :
                    Crawlable(PageLinks(u)[i]) =>
                        urljoin(u, PageLinks(u)[i]) \in DOMAIN visited_links


\* C14: the error_links entry written by a call of check_link that a page's
\* loop made has the URL of that page as its parent, the URL of the call as
\* its target and the depth of the call as its depth.
C14_EntryNamesReferrer ==
    \A t \in Tasks :
        \A n \in 2..Len(stack[t]) :
            (stack[t][n].pc = "finally" /\ stack[t][n].url \in DOMAIN error_links)
                => /\ error_links[stack[t][n].url].parent = stack[t][n - 1].url
                   /\ error_links[stack[t][n].url].target = stack[t][n].url
                   /\ error_links[stack[t][n].url].depth = stack[t][n].depth


-----------------------------------------------------------------------------
(* Further properties of testurl.py, under SpecTest.                       *)

\* The server answers url with status 200 and a body that is no text: bytes
\* that decode under none of utf-8, gbk, big5.
Answers200NoText(url) == url \in DOMAIN script /\ script[url].then = "other"

\* C15: a link answered with status 200 and a body that is no text is a
\* success: no report holds a tuple for it, and it is never expanded.
C15_NonTextIsSuccess ==
    /\ \A n \in 1..Len(reports) :
          \A tuple \in TuplesOf(reports[n].invalid_links) :
              ~Answers200NoText(tuple[3])
    /\ \A e \in expandLog : ~Answers200NoText(e.url)


-----------------------------------------------------------------------------
(* Further properties of chklink.py, under SpecChk.                        *)

\* C16: when a parsed page holds a reference that urljoin cannot resolve,
\* only that reference is skipped: at the end of the run the other followed
\* references of the page are keys of visited_links, the status of the page
\* is still 200, and error_links has no entry for the page.
C16_BadReferenceSkipped ==
    ChkDone =>
        \A u \in DOMAIN enumerated :
            (~LinksResolve(u) /\ BelowLimit(u)) =>
                /\ visited_links[u] = "200"
                /\ u \notin DOMAIN error_links
                /\ \A i \in 1..Len(PageLinks(u)) :
                      (Followed(PageLinks(u)[i]) /\ ~UrljoinRaises(PageLinks(u)[i]))
                          => urljoin(u, PageLinks(u)[i]) \in DOMAIN visited_links


\* A value of visited_links other than 'Processing': a status code, an error
\* message or 'Depth Limit Reached'.
Terminal(status) == status # "Processing"

\* C17: a terminal value of visited_links is never overwritten, and at the
\* end of the run the reason of every error_links entry is the value
\* visited_links holds for that URL.
C17_TerminalIsFinal ==
    /\ [][\A u \in DOMAIN visited_links :
              Terminal(visited_links[u]) => visited_links'[u] = visited_links[u]]_vars
    /\ [](ChkDone => \A u \in DOMAIN error_links :
                        visited_links[u] = error_links[u].reason)


-----------------------------------------------------------------------------
(* Further properties of testurl.py, under SpecTest.                       *)

\* The URLs the crawlable references of the page at url resolve to.
CrawlableTargets(url) ==
    {urljoin(url, PageLinks(url)[i]) :
        i \in {j \in 1..Len(PageLinks(url)) :
                  Crawlable(PageLinks(url)[j]) /\ ~UrljoinRaises(PageLinks(url)[j])}}

\* C18: find_links hands over, for fetching and expansion, only what the
\* crawlable references of the page resolve to: an empty, anchor-only,
\* javascript:, mailto: or data:image reference adds no link, so that no
\* fetch is made and no scanned_urls key is written on its account.
C18_FilteredRefsNotHandedOver ==
    /\ \A e \in expandLog : TuplesOf(e.links) \subseteq CrawlableTargets(e.url)
    /\ \A u \in DOMAIN scanned_urls :
          u \in {urls[n] : n \in 1..Len(urls)}
          \/ \E e \in expandLog : u \in CrawlableTargets(e.url)


\* The server has answered url with a page that find_links expands when
\* it is of the origin of seedUrl.
ExpandablePage(url, seedUrl) ==
    /\ url \in DOMAIN script
    /\ script[url] = [k |-> 0, then |-> "html"]
    /\ LinksResolve(url)
    /\ Netloc(url) = Netloc(seedUrl)

\* The URLs a link path of length at most k leads to from seedUrl, through
\* pages that find_links expands.
RECURSIVE Within(_, _)
Within(seedUrl, k) ==
    IF k = 0 THEN {seedUrl}
    ELSE LET W == Within(seedUrl, k - 1) IN
         W \cup UNION {TuplesOf(SelectSeq(Joined(u, PageLinks(u)), WithSublinks)) :
                          u \in {x \in W : ExpandablePage(x, seedUrl)}}

\* C19: when check_links(seed) has returned, every page that a link path of
\* length k < MAX_DEPTH leads to from the seed has been expanded in that
\* crawl, at a depth of at most k, whatever the order of the links in the
\* pages.
C19_ExpandedAtShortestDepth ==
    \A n \in 1..Len(reports) :
        \A k \in 0..(MAX_DEPTH - 1) :
            \A u \in Within(reports[n].url, k) :
                ExpandablePage(u, reports[n].url) =>
                    \E e \in expandLog :
                        e.seed = reports[n].url /\ e.url = u /\ e.depth <= k


-----------------------------------------------------------------------------
(* chklink.py run by one schedule: the dictionaries main ends with when,    *)
(* after gather has started the tasks, every task runs to its end before    *)
(* the next one gets an answer. st is [v |-> visited_links,                 *)
(* e |-> error_links].                                                      *)

\* The outcome of the first GET of url.
SeqOutcome(url) ==
    IF url \in DOMAIN script THEN Outcome(script[url], 1) ELSE "other"

\* lines 57-59
SeqFinally(url, depth, st) ==
    IF DepthLimit(depth)
    THEN [st EXCEPT !.v = Put(@, url, "Depth Limit Reached")]
    ELSE st

\* lines 42-48, 50-52, 54-56
SeqFail(url, depth, reason, st) ==
    [v |-> Put(st.v, url, reason),
     e |-> Put(st.e, url, ErrorEntry(depth, url, reason))]

\* lines 38-48: the retry of line 40 returns at line 18
SeqTimeout(url, depth, st) ==
    IF retries > 0 THEN st ELSE SeqFail(url, depth, "Timeout Error", st)

RECURSIVE SeqBody(_, _, _)
RECURSIVE SeqLoop(_, _, _, _)
RECURSIVE SeqCheckLink(_, _, _)

\* lines 22-59, for a URL that line 21 has marked
SeqBody(url, depth, st) ==
    LET o == SeqOutcome(url)
        ok == [st EXCEPT !.v = Put(@, url, "200")]
    IN  SeqFinally(url, depth,
            CASE o = "html" -> SeqLoop(url, depth, 1, ok)
              [] o = "badbody" -> SeqFail(url, depth, Message("badbody"), ok)
              [] o = "slowbody" -> SeqTimeout(url, depth, ok)
              [] o = "other" -> ok
              [] o = "http404" -> [st EXCEPT !.v = Put(@, url, "404")]
              [] o = "reset" -> SeqFail(url, depth, Message("reset"), st)
              [] OTHER -> SeqTimeout(url, depth, st))

\* lines 33-37, from the i-th link of the page on
SeqLoop(url, depth, i, st) ==
    IF i > Len(PageLinks(url)) THEN st
    ELSE IF ~Followed(PageLinks(url)[i]) THEN SeqLoop(url, depth, i + 1, st)
    ELSE IF UrljoinRaises(PageLinks(url)[i])
    THEN SeqFail(url, depth, Message("urljoin"), st)
    ELSE SeqLoop(url, depth, i + 1,
                 SeqCheckLink(urljoin(url, PageLinks(url)[i]), depth + 1, st))

\* check_link(session, url, depth, max_depth, retries), lines 16-59
SeqCheckLink(url, depth, st) ==
    IF url \in DOMAIN st.v THEN st
    ELSE SeqBody(url, depth, [st EXCEPT !.v = Put(@, url, "Processing")])

\* main, lines 62-65: gather marks the seeds in the order of urls, then the
\* tasks run one after the other.
SeqMain ==
    SeqBody(urls[2], 0,
        SeqBody(urls[1], 0,
            [v |-> Put(Put(Empty_dict, urls[1], "Processing"),
                       urls[2], "Processing"),
             e |-> Empty_dict]))

\* C20: with the outcome of every GET fixed, visited_links and error_links
\* end with the same keys, statuses and recorded depths for every
\* interleaving of the gathered tasks: the ones of the schedule in which the
\* tasks run one after the other.
C20_ResultIndependentOfInterleaving ==
    ChkDone => visited_links = SeqMain.v /\ error_links = SeqMain.e

====
